---- MODULE Spec2Model ----
(***************************************************************************)
(* Model of the hotfix booking routes of the BI dashboard server           *)
(* (src/server/hotfix-booking.js): the persisted booking ledger, the       *)
(* booking handler, the next-version computation with its auto-cleanup and *)
(* the client-versions matrix; and of the hotfix check (src/server/pmh.js).*)
(* The server is one Node.js process: every handler body between two       *)
(* awaits runs to completion, so each is one action.                       *)
(*   Spec      requests handled one at a time, over the wide input sets    *)
(*   SpecConc  requests in flight together, over the narrow input sets     *)
(*   SpecIO    Spec, with reads of the ledger file that fail and with a    *)
(*             process that dies inside a write of it                      *)
(*   SpecPmh   one hotfix check of src/server/pmh.js, from its request to  *)
(*             its response                                                *)
(*   SpecMx    one client-versions request: the version matrix             *)
(*   SpecHist  bookings, then one history request                          *)
(*   SpecFrame every route that reads the ledger, over the narrow inputs   *)
(*   SpecUi    two dashboard pages booking against the server              *)
(***************************************************************************)
EXTENDS Integers, Sequences, FiniteSets, TLC

VARIABLES
  ledger,   \* the bookings array of data/hotfix-bookings.json
  now,      \* the server clock, Date.now()
  pc,       \* per request in flight: where it is
  body,     \* per request in flight: the JSON body of a booking request
  cms,      \* per request in flight: the CMs its fetchDeployedCMs resolved with
  resp,     \* the response the last handler sent
  last,     \* the handler that ran last and what it was given
  disk,     \* whether data/hotfix-bookings.json can be read and parsed
  pmh,      \* the hotfix check of src/server/pmh.js: request, response, snapshot
  mx,       \* the client-versions matrix: the CMs fetched and the response
  hist,     \* the history request: query, CMs fetched and the response
  ui        \* per dashboard page: the state of public/js/hotfix-booking.js

vars == <<ledger, now, pc, body, cms, resp, last, disk, pmh, mx, hist, ui>>

(***************************** bounds **************************************)
MaxClock == 1     \* clock ticks explored
MaxLedger == 2    \* bookings requested while the ledger is shorter than this
MaxTags == 3      \* fixVersions of the issue a hotfix check evaluates

Req == {"r1", "r2"}   \* requests in flight at once
Patches == {1, 2}     \* patches of the hotfix versions requests and CMs carry

(************************ version strings **********************************)
\* A string is the sequence of its dot-separated parts. A part of digits is
\* [k |-> "dig", n |-> its value, z |-> its leading zeros]; any other part
\* is [k |-> "txt"] with n what Number() makes of it (NaN for a word).
NaN == -1
Dig(n) == [k |-> "dig", n |-> n, z |-> 0]
DigZ(n) == [k |-> "dig", n |-> n, z |-> 1]
Word == [k |-> "txt", n |-> NaN, z |-> 0]
EmptyPart == [k |-> "txt", n |-> 0, z |-> 0]

V(a, b, c) == <<Dig(a), Dig(b), Dig(c)>>
VZ(a, b, c) == <<Dig(a), Dig(b), DigZ(c)>>    \* "a.b.0c"
Backlog == <<Word>>                           \* "Backlog"
EmptyStr == <<EmptyPart>>                     \* ""

\* /^\d+\.\d+\.\d+$/.test(v)
IsVersionString(v) == Len(v) = 3 /\ \A i \in 1..3 : v[i].k = "dig"

\* parts[i] || 0 after split('.').map(Number)
PartOr0(v, i) == IF i <= Len(v) /\ v[i].n # NaN THEN v[i].n ELSE 0

parseVersion(v) ==
  [major |-> PartOr0(v, 1), minor |-> PartOr0(v, 2), patch |-> PartOr0(v, 3)]

\* Faulty variant: the minor is left out of the comparison.
compareVersionsNoMinor(a, b) ==
  LET vA == parseVersion(a)
      vB == parseVersion(b)
  IN  IF vA.major # vB.major THEN vA.major - vB.major
      ELSE vA.patch - vB.patch

compareVersions(a, b) ==
  LET vA == parseVersion(a)
      vB == parseVersion(b)
  IN  IF vA.major # vB.major THEN vA.major - vB.major
      ELSE IF vA.minor # vB.minor THEN vA.minor - vB.minor
      ELSE vA.patch - vB.patch

\* Array.prototype.sort(compareVersions): a stable sort, by insertion.
RECURSIVE InsertSorted(_, _)
InsertSorted(x, s) ==
  IF s = <<>> THEN <<x>>
  ELSE IF compareVersions(s[Len(s)], x) <= 0 THEN Append(s, x)
  ELSE Append(InsertSorted(x, SubSeq(s, 1, Len(s) - 1)), s[Len(s)])

RECURSIVE SortVersions(_)
SortVersions(s) ==
  IF s = <<>> THEN <<>>
  ELSE InsertSorted(s[Len(s)], SortVersions(SubSeq(s, 1, Len(s) - 1)))

RECURSIVE Flatten(_)
Flatten(ss) == IF ss = <<>> THEN <<>> ELSE Head(ss) \o Flatten(Tail(ss))

Range(s) == {s[i] : i \in 1..Len(s)}

(***************************** inputs **************************************)
Cm(key, fv) == [key |-> key, fixVersions |-> fv]

DeployTags ==
  {V(1, 1, p) : p \in Patches} \cup {V(1, 2, 0), V(2, 0, 0), VZ(1, 1, 1)}

\* What fetchDeployedCMs can resolve with.
CmsInputs ==
  {<<>>, <<Cm("CM-1", <<Backlog>>)>>}
    \cup {<<Cm("CM-1", <<v>>)>> : v \in DeployTags}
    \cup {<<Cm("CM-1", <<v, Backlog>>), Cm("CM-2", <<V(1, 1, 1)>>)>> : v \in DeployTags}

Undef == [t |-> "undef", v |-> <<>>]      \* field absent
NotArray == [t |-> "str", v |-> <<>>]     \* a non-empty string, not an array
Arr(s) == [t |-> "arr", v |-> s]

BookVersions ==
  {V(1, 1, p) : p \in Patches} \cup {VZ(1, 1, 1), Backlog}

Body(v, co, cl, by) ==
  [version |-> v, components |-> co, clientEnvironments |-> cl, bookedBy |-> by]

\* Request bodies: the well-formed ones, and one for each way to be rejected.
Bodies ==
  {Body(v, Arr(<<"Core">>), Arr(<<"Acme">>), "ana") : v \in BookVersions}
    \cup {Body(V(1, 1, 1), Arr(<<"Core">>), Arr(<<"Acme">>), ""),
          Body(EmptyStr, Arr(<<"Core">>), Arr(<<"Acme">>), "ana"),
          Body(V(1, 1, 1), Undef, Arr(<<"Acme">>), "ana"),
          Body(V(1, 1, 1), Arr(<<"Core">>), Undef, "ana"),
          Body(V(1, 1, 1), Arr(<<>>), Arr(<<"Acme">>), "ana"),
          Body(V(1, 1, 1), Arr(<<"Core">>), Arr(<<>>), "ana"),
          Body(V(1, 1, 1), NotArray, Arr(<<"Acme">>), "ana"),
          Body(V(1, 1, 1), Arr(<<"Core">>), NotArray, "ana")}

NoBody == Body(EmptyStr, Undef, Undef, "")

NoBooking == [id |-> -1, version |-> EmptyStr, components |-> <<>>,
              clientEnvironments |-> <<>>, bookedBy |-> "", bookedAt |-> -1,
              status |-> "none"]

NoVersion == <<>>

NoResp == [status |-> 0, error |-> "", booking |-> NoBooking,
           currentHighest |-> NoVersion, nextVersion |-> NoVersion,
           baseVersion |-> NoVersion, bookings |-> <<>>]

Str(v) == [t |-> "str", v |-> v]          \* a string
Null == -1                                \* null, where a number is expected

\* pmh: the hotfix check's position (pc), its targetVersion query parameter
\* (target), the issues its fetch resolved with, the response it sent, and
\* server/pmh.json (file).
NoPmhResp == [status |-> 0, error |-> "", targetVersion |-> Undef, missingStories |-> <<>>]
NoSnapshot == [written |-> FALSE, targetVersion |-> Undef, missingStories |-> <<>>]
NoPmh == [pc |-> "idle", target |-> Undef, issues |-> <<>>, resp |-> NoPmhResp,
          file |-> NoSnapshot]

\* mx: the client-versions request's position (pc), the CMs its fetch
\* resolved with, and the response: matrix[client][component] is an entry.
NoEntry == [version |-> NoVersion, cmKey |-> "", deployedAt |-> ""]
NoMxResp == [status |-> 0, matrix |-> <<>>, components |-> {}, clients |-> {}]
NoMx == [pc |-> "idle", cms |-> <<>>, resp |-> NoMxResp]

\* hist: the history request's position (pc), its query parameters, the CMs
\* its two fetches resolved with (recent, byVersion), and the response.
NoQuery == [major |-> Undef, minor |-> Undef]
NoHistResp == [status |-> 0, minorVersions |-> <<>>, currentMajor |-> 0,
               currentMinor |-> 0, targetMinor |-> 0, hotfixes |-> <<>>]
NoHist == [pc |-> "idle", query |-> NoQuery, recent |-> <<>>, byVersion |-> <<>>,
           bookings |-> <<>>, resp |-> NoHistResp]

\* Two booking requests in flight at once: fewer bodies and fetch results.
RaceBodies ==
  {Body(v, Arr(<<"Core">>), Arr(<<"Acme">>), "ana") : v \in {V(1, 1, 1), V(1, 1, 2)}}
    \cup {Body(V(1, 1, 1), Arr(<<"Core">>), Arr(<<"Acme">>), "")}

RaceCms == {<<>>, <<Cm("CM-1", <<V(1, 1, 1)>>)>>, <<Cm("CM-1", <<V(1, 1, 2), Backlog>>)>>}

\* last: the handler that ran last (op, for request r), what it was given (body,
\* cms), the ledger it found (before), the booking requests waiting while it ran
\* (rivals), whether it handled a rival of the successful booking of the same
\* version that ran just before it (raced), and whether it repeated the
\* next-version computation that ran just before it on the same deployed set
\* (repeat: 0 no, 1 yes, 2 yes and that one evicted bookings), the state
\* of the file when it read it (disk), and whether it booked the nextVersion
\* that the next-version computation just before it had answered with (offered).
NoLast == [op |-> "none", r |-> "r1", body |-> NoBody, cms |-> <<>>,
           before |-> <<>>, rivals |-> {}, raced |-> FALSE, repeat |-> 0,
           disk |-> "ok", offered |-> FALSE]

\* ui: the state of one dashboard page. nextVersion, selected (whether
\* selectedComponents and selectedClients are both non-empty) and loaded
\* (fieldOptionsLoaded) are the page's own variables; what the page renders
\* is not kept. pc is where bookHotfix stands, loads the loads that onTabShow or
\* refresh started and that have not answered yet, submitted the version of
\* the booking request in flight, and rejected the version of the page's last
\* booking request answered 409, forgotten at a success or a refresh.
Dashboards == {"a", "b"}

NoUi == [pc |-> "idle", loads |-> {}, loaded |-> FALSE, nextVersion |-> NoVersion,
         selected |-> FALSE, submitted |-> NoVersion, rejected |-> NoVersion]

(**************************** the ledger ***********************************)
\* Faulty variant: the handler works on the copy the handler before it had read.
loadBookingsStale == last.before

\* loadBookings(): the parsed file, and an empty ledger when the read or the
\* parse throws (the catch block); saveBookings(data) rewrites the file whole.
\* disk is "ok", "unreadable" (the bookings are in the file, reading it throws)
\* or "corrupt" (a torn write: no text that parses).
loadBookings == IF disk = "ok" THEN ledger ELSE <<>>

(************************ calculateNextVersion *****************************)
\* The versions of the deployed CMs that pass the pattern, in order.
DeployedList(c) ==
  SelectSeq(Flatten([i \in 1..Len(c) |-> c[i].fixVersions]), IsVersionString)

deployedVersions(c) == Range(DeployedList(c))

\* Faulty variant: only the first deployed booking is removed.
CleanupFirstOnly(bookings, c) ==
  LET hit == {i \in 1..Len(bookings) : bookings[i].version \in deployedVersions(c)}
      k == CHOOSE i \in hit : \A j \in hit : i <= j
  IN  IF hit = {} THEN bookings
      ELSE SubSeq(bookings, 1, k - 1) \o SubSeq(bookings, k + 1, Len(bookings))

\* Faulty variant: the filter keeps the deployed bookings and drops the others.
CleanupInverted(bookings, c) ==
  SelectSeq(bookings, LAMBDA b : b.version \in deployedVersions(c))

\* bookingsData.bookings after the auto-cleanup filter
Cleanup(bookings, c) ==
  SelectSeq(bookings, LAMBDA b : b.version \notin deployedVersions(c))

\* Faulty variant: booked versions are added without the pattern test.
BookedListUnfiltered(bookings) == [i \in 1..Len(bookings) |-> bookings[i].version]

\* bookingsData.bookings.forEach: the booked versions that pass the pattern
BookedList(bookings) ==
  SelectSeq([i \in 1..Len(bookings) |-> bookings[i].version], IsVersionString)

\* Faulty variant: the booked versions are not added.
allVersionsDeployedOnly(bookings, c) == DeployedList(c)

allVersions(bookings, c) == DeployedList(c) \o BookedList(Cleanup(bookings, c))

highestVersion(all) == SortVersions(all)[Len(all)]

\* Faulty variant: the highest version itself is answered as the next one.
calculateNextVersionSame(bookings, c) ==
  LET all == allVersions(bookings, c)
      parsed == parseVersion(highestVersion(all))
  IN  IF Len(all) = 0
      THEN [NoResp EXCEPT !.status = 200, !.error = "No deployed versions found."]
      ELSE [NoResp EXCEPT !.status = 200,
                          !.currentHighest = highestVersion(all),
                          !.nextVersion = V(parsed.major, parsed.minor, parsed.patch),
                          !.baseVersion = V(parsed.major, parsed.minor, 0)]

calculateNextVersion(bookings, c) ==
  LET all == allVersions(bookings, c)
      parsed == parseVersion(highestVersion(all))
  IN  IF Len(all) = 0
      THEN [NoResp EXCEPT !.status = 200, !.error = "No deployed versions found."]
      ELSE [NoResp EXCEPT !.status = 200,
                          !.currentHighest = highestVersion(all),
                          !.nextVersion = V(parsed.major, parsed.minor, parsed.patch + 1),
                          !.baseVersion = V(parsed.major, parsed.minor, 0)]

(***************************** booking *************************************)
\* !x, for a field that is absent
Falsy(x) == x.t = "undef"
\* Faulty variant: the length test is missing.
IsArrayOnly(x) == x.t = "arr"

\* Array.isArray(x) && x.length !== 0
IsNonEmptyArray(x) == x.t = "arr" /\ Len(x.v) > 0

\* Faulty variant: the duplicate check finds nothing.
FindBookingSkipped(bookings, version) == NoBooking

\* data.bookings.find(b => b.version === version)
FindBooking(bookings, version) ==
  LET hits == SelectSeq(bookings, LAMBDA b : b.version = version)
  IN  IF hits = <<>> THEN NoBooking ELSE Head(hits)

NewBooking(b) ==
  [id |-> now, version |-> b.version, components |-> b.components.v,
   clientEnvironments |-> b.clientEnvironments.v,
   bookedBy |-> IF b.bookedBy = "" THEN "Unknown" ELSE b.bookedBy,
   bookedAt |-> now, status |-> "booked"]

BookResponse(bookings, b) ==
  IF b.version = EmptyStr \/ Falsy(b.components) \/ Falsy(b.clientEnvironments)
  THEN [NoResp EXCEPT !.status = 400, !.error = "Missing required fields"]
  ELSE IF ~IsNonEmptyArray(b.components)
  THEN [NoResp EXCEPT !.status = 400, !.error = "At least one component is required"]
  ELSE IF ~IsNonEmptyArray(b.clientEnvironments)
  THEN [NoResp EXCEPT !.status = 400, !.error = "At least one client environment is required"]
  ELSE IF FindBooking(bookings, b.version) # NoBooking
  THEN [NoResp EXCEPT !.status = 409, !.error = "already booked",
                      !.booking = FindBooking(bookings, b.version)]
  ELSE [NoResp EXCEPT !.status = 200, !.booking = NewBooking(b)]

(***************************** actions *************************************)
Init ==
  /\ ledger = <<>>
  /\ now = 0
  /\ pc = [r \in Req |-> "idle"]
  /\ body = [r \in Req |-> NoBody]
  /\ cms = [r \in Req |-> <<>>]
  /\ resp = NoResp
  /\ last = NoLast
  /\ disk = "ok"
  /\ pmh = NoPmh
  /\ mx = NoMx
  /\ hist = NoHist
  /\ ui = [d \in Dashboards |-> NoUi]

Tick ==
  /\ now < MaxClock
  /\ now' = now + 1
  /\ UNCHANGED <<ledger, pc, body, cms, resp, last, disk, pmh, mx, hist, ui>>

\* Faulty variant: the push and the save run before the conflict is answered.
SavedByBookAlways(data, out) ==
  IF out.status \in {200, 409} THEN Append(data, out.booking) ELSE ledger

\* Faulty variant: the new booking is appended to the copy of the ledger that
\* the handler before this one had read.
SavedByBookOnSnapshot(data, out) ==
  IF out.status = 200 THEN Append(last.before, out.booking) ELSE ledger

\* data.bookings.push(newBooking); saveBookings(data) -- on success only
SavedByBook(data, out) == IF out.status = 200 THEN Append(data, out.booking) ELSE ledger

\* Faulty variant: the cleaned ledger is never written back.
SavedByCleanupNever(data, kept) == ledger

\* if (bookingsData.bookings.length < originalCount) saveBookings(bookingsData)
SavedByCleanup(data, kept) == IF Len(kept) < Len(data) THEN kept ELSE ledger

\* The handler of POST /hotfix-booking/book with body b, synchronous from its
\* first line to its last; rv are the booking requests waiting meanwhile.
Book(b, r, rv) ==
  /\ LET data == loadBookings
         out == BookResponse(data, b)
     IN  /\ resp' = out
         /\ ledger' = SavedByBook(data, out)
         /\ disk' = IF out.status = 200 THEN "ok" ELSE disk
  /\ last' = [NoLast EXCEPT !.op = "book", !.r = r, !.body = b, !.before = ledger,
                             !.rivals = rv, !.disk = disk,
                             !.offered = /\ last.op = "next"
                                         /\ resp.nextVersion = b.version,
                             !.raced = /\ last.op = "book"
                                       /\ resp.status = 200
                                       /\ r \in last.rivals
                                       /\ last.body.version = b.version]
  /\ UNCHANGED <<now, pmh, mx, hist>>

\* The next-version handler once fetchDeployedCMs resolved with c:
\* calculateNextVersion(c), its cleanup, and res.json.
NextVersion(c, r) ==
  /\ LET data == loadBookings
     IN  /\ ledger' = SavedByCleanup(data, Cleanup(data, c))
         /\ resp' = calculateNextVersion(data, c)
  /\ last' = [NoLast EXCEPT !.op = "next", !.r = r, !.cms = c, !.before = ledger,
                             !.disk = disk,
                             !.repeat = IF last.op = "next"
                                           /\ deployedVersions(last.cms) = deployedVersions(c)
                                        THEN IF Len(ledger) < Len(last.before) THEN 2 ELSE 1
                                        ELSE 0]
  /\ UNCHANGED <<now, disk, pmh, mx, hist>>

\* fetchDeployedCMs rejects: the catch block answers 500, the ledger is not read.
NextVersionFailed(r) ==
  /\ resp' = [NoResp EXCEPT !.status = 500, !.error = "Failed to calculate next version"]
  /\ last' = [NoLast EXCEPT !.op = "nextfail", !.r = r, !.before = ledger]
  /\ UNCHANGED <<ledger, now, disk, pmh, mx, hist>>

\* Successful bookings are explored while the ledger is shorter than MaxLedger.
Explored(b) == Len(ledger) < MaxLedger \/ BookResponse(ledger, b).status # 200

(* Requests one at a time: the event loop runs each handler to its end. *)
BookRequest ==
  \E b \in Bodies :
    /\ Explored(b)
    /\ Book(b, "r1", {})
    /\ UNCHANGED <<pc, body, cms, ui>>

NextVersionRequest ==
  \E c \in CmsInputs :
    /\ NextVersion(c, "r1")
    /\ UNCHANGED <<pc, body, cms, ui>>

NextVersionFailure ==
  /\ NextVersionFailed("r1")
  /\ UNCHANGED <<pc, body, cms, ui>>

Next ==
  \/ Tick
  \/ BookRequest
  \/ NextVersionRequest
  \/ NextVersionFailure

Spec == Init /\ [][Next]_vars

(* Requests in flight: a request waits for its handler while others run. *)
\* A client sends POST /hotfix-booking/book; express.json() parses the body.
SubmitBook(r) ==
  /\ pc[r] = "idle"
  /\ \E b \in RaceBodies : body' = [body EXCEPT ![r] = b]
  /\ pc' = [pc EXCEPT ![r] = "book"]
  /\ UNCHANGED <<ledger, now, cms, resp, last, disk, pmh, mx, hist, ui>>

HandleBook(r) ==
  /\ pc[r] = "book"
  /\ Explored(body[r])
  /\ Book(body[r], r, {q \in Req \ {r} : pc[q] = "book"})
  /\ pc' = [pc EXCEPT ![r] = "idle"]
  /\ body' = [body EXCEPT ![r] = NoBody]
  /\ UNCHANGED <<cms, ui>>

\* A client sends GET /hotfix-booking/next-version; the handler awaits the fetch.
StartNext(r) ==
  /\ pc[r] = "idle"
  /\ pc' = [pc EXCEPT ![r] = "fetch"]
  /\ UNCHANGED <<ledger, now, body, cms, resp, last, disk, pmh, mx, hist, ui>>

\* Jira answers the query of fetchDeployedCMs.
FetchResolves(r) ==
  /\ pc[r] = "fetch"
  /\ \E c \in RaceCms : cms' = [cms EXCEPT ![r] = c]
  /\ pc' = [pc EXCEPT ![r] = "ready"]
  /\ UNCHANGED <<ledger, now, body, resp, last, disk, pmh, mx, hist, ui>>

FetchFails(r) ==
  /\ pc[r] = "fetch"
  /\ NextVersionFailed(r)
  /\ pc' = [pc EXCEPT ![r] = "idle"]
  /\ UNCHANGED <<body, cms, ui>>

HandleNext(r) ==
  /\ pc[r] = "ready"
  /\ NextVersion(cms[r], r)
  /\ pc' = [pc EXCEPT ![r] = "idle"]
  /\ cms' = [cms EXCEPT ![r] = <<>>]
  /\ UNCHANGED <<body, ui>>

NextConc ==
  \/ Tick
  \/ \E r \in Req : SubmitBook(r)
  \/ \E r \in Req : HandleBook(r)
  \/ \E r \in Req : StartNext(r)
  \/ \E r \in Req : FetchResolves(r)
  \/ \E r \in Req : FetchFails(r)
  \/ \E r \in Req : HandleNext(r)

SpecConc == Init /\ [][NextConc]_vars

(* The file system misbehaves and the process can die inside a write. *)
\* Faulty variant: the listing writes the ledger back without its bookings.
ListRequestRewrites ==
  /\ resp' = [NoResp EXCEPT !.status = 200, !.bookings = loadBookings]
  /\ last' = [NoLast EXCEPT !.op = "list", !.before = ledger, !.disk = disk]
  /\ ledger' = <<>>
  /\ UNCHANGED <<now, pc, body, cms, disk, pmh, mx, hist, ui>>

\* GET /hotfix-booking/bookings: res.json(loadBookings().bookings)
ListBookings ==
  /\ resp' = [NoResp EXCEPT !.status = 200, !.bookings = loadBookings]
  /\ last' = [NoLast EXCEPT !.op = "list", !.before = ledger, !.disk = disk]
  /\ UNCHANGED <<ledger, now, disk, pmh, mx, hist>>

ListRequest ==
  /\ ListBookings
  /\ UNCHANGED <<pc, body, cms, ui>>

\* readFileSync or JSON.parse starts to throw on a file that holds bookings:
\* an I/O error, or a syntax error brought in by an edit of the file.
ReadFault ==
  /\ disk = "ok"
  /\ ledger # <<>>
  /\ disk' = "unreadable"
  /\ UNCHANGED <<ledger, now, pc, body, cms, resp, last, pmh, mx, hist, ui>>

FaultClears ==
  /\ disk = "unreadable"
  /\ disk' = "ok"
  /\ UNCHANGED <<ledger, now, pc, body, cms, resp, last, pmh, mx, hist, ui>>

\* fs.writeFileSync(BOOKINGS_FILE, text) opens the file with O_TRUNC and then
\* writes the text. A process that dies inside the call leaves the previous
\* file ("old", it died before the open), the whole text ("new"), or a file
\* cut short ("torn"); no response is sent.
CrashOutcomes == {"old", "new", "torn"}

CrashedWrite(data, o) ==
  /\ ledger' = IF o = "new" THEN data ELSE IF o = "old" THEN ledger ELSE <<>>
  /\ disk' = IF o = "new" THEN "ok" ELSE IF o = "old" THEN disk ELSE "corrupt"
  /\ resp' = NoResp

\* The process dies in the saveBookings(data) of the booking handler.
CrashDuringBookWrite ==
  \E b \in Bodies, o \in CrashOutcomes :
    /\ Len(ledger) < MaxLedger
    /\ BookResponse(loadBookings, b).status = 200
    /\ CrashedWrite(SavedByBook(loadBookings, BookResponse(loadBookings, b)), o)
    /\ last' = [NoLast EXCEPT !.op = "bookcrash", !.body = b, !.before = ledger,
                               !.disk = disk]
    /\ UNCHANGED <<now, pc, body, cms, pmh, mx, hist, ui>>

\* The process dies in the saveBookings(bookingsData) of the auto-cleanup.
CrashDuringCleanupWrite ==
  \E c \in CmsInputs, o \in CrashOutcomes :
    /\ Len(Cleanup(loadBookings, c)) < Len(loadBookings)
    /\ CrashedWrite(SavedByCleanup(loadBookings, Cleanup(loadBookings, c)), o)
    /\ last' = [NoLast EXCEPT !.op = "nextcrash", !.cms = c, !.before = ledger,
                               !.disk = disk]
    /\ UNCHANGED <<now, pc, body, cms, pmh, mx, hist, ui>>

NextIO ==
  \/ Next
  \/ ListRequest
  \/ ReadFault
  \/ FaultClears
  \/ CrashDuringBookWrite
  \/ CrashDuringCleanupWrite

SpecIO == Init /\ [][NextIO]_vars

(*************************** the hotfix check ******************************)
\* parseVersion of pmh.js: null unless the name matches /^(\d+)\.(\d+)\.(\d+)$/
NullVersion == [major |-> Null, minor |-> Null, patch |-> Null]

pmhParseVersion(versionName) ==
  IF versionName = EmptyStr THEN NullVersion
  ELSE IF ~IsVersionString(versionName) THEN NullVersion
  ELSE [major |-> versionName[1].n, minor |-> versionName[2].n,
        patch |-> versionName[3].n]

\* The three locals of shouldFlagStory before its loop.
FlagLocals == [maxHotfixMinor |-> Null, maxReleaseMinorBeforeTarget |-> Null,
               hasTargetVersion |-> FALSE]

\* Faulty variant: a hotfix of the target's own minor counts as evidence.
FlagStepHotfixAtTarget(acc, name, targetParsed) ==
  LET parsed == pmhParseVersion(name)
      seen == [acc EXCEPT !.hasTargetVersion = @ \/ parsed = targetParsed]
  IN  IF parsed = NullVersion \/ parsed.major < targetParsed.major THEN acc
      ELSE IF parsed.patch = 0
      THEN IF /\ parsed.minor <= targetParsed.minor
              /\ (seen.maxReleaseMinorBeforeTarget = Null
                    \/ parsed.minor > seen.maxReleaseMinorBeforeTarget)
           THEN [seen EXCEPT !.maxReleaseMinorBeforeTarget = parsed.minor]
           ELSE seen
      ELSE IF /\ parsed.minor <= targetParsed.minor
              /\ (seen.maxHotfixMinor = Null \/ parsed.minor > seen.maxHotfixMinor)
           THEN [seen EXCEPT !.maxHotfixMinor = parsed.minor]
           ELSE seen

\* Faulty variant: a tag of the target's minor or above is skipped at once,
\* the target itself with it.
FlagStepBelowTargetOnly(acc, name, targetParsed) ==
  LET parsed == pmhParseVersion(name)
  IN  IF parsed = NullVersion \/ parsed.major < targetParsed.major THEN acc
      ELSE IF parsed.minor >= targetParsed.minor THEN acc
      ELSE IF parsed.patch = 0
      THEN IF \/ acc.maxReleaseMinorBeforeTarget = Null
              \/ parsed.minor > acc.maxReleaseMinorBeforeTarget
           THEN [acc EXCEPT !.maxReleaseMinorBeforeTarget = parsed.minor]
           ELSE acc
      ELSE IF acc.maxHotfixMinor = Null \/ parsed.minor > acc.maxHotfixMinor
           THEN [acc EXCEPT !.maxHotfixMinor = parsed.minor]
           ELSE acc

\* One pass of the loop of shouldFlagStory, for the fixVersion called name.
FlagStep(acc, name, targetParsed) ==
  LET parsed == pmhParseVersion(name)
      seen == [acc EXCEPT !.hasTargetVersion =
                 @ \/ (/\ parsed.major = targetParsed.major
                        /\ parsed.minor = targetParsed.minor
                        /\ parsed.patch = targetParsed.patch)]
  IN  IF parsed = NullVersion THEN acc
      ELSE IF parsed.major < targetParsed.major THEN acc
      ELSE IF parsed.patch = 0
      THEN IF /\ parsed.minor <= targetParsed.minor
              /\ (seen.maxReleaseMinorBeforeTarget = Null
                    \/ parsed.minor > seen.maxReleaseMinorBeforeTarget)
           THEN [seen EXCEPT !.maxReleaseMinorBeforeTarget = parsed.minor]
           ELSE seen
      ELSE IF /\ parsed.minor < targetParsed.minor
              /\ (seen.maxHotfixMinor = Null \/ parsed.minor > seen.maxHotfixMinor)
           THEN [seen EXCEPT !.maxHotfixMinor = parsed.minor]
           ELSE seen

\* for (const fv of fixVersions), over the names fv.name
RECURSIVE FlagLoop(_, _, _)
FlagLoop(acc, fixVersions, targetParsed) ==
  IF fixVersions = <<>> THEN acc
  ELSE FlagLoop(FlagStep(acc, Head(fixVersions), targetParsed), Tail(fixVersions),
                targetParsed)

shouldFlagStory(fixVersions, targetParsed) ==
  IF Len(fixVersions) = 0 THEN FALSE
  ELSE LET acc == FlagLoop(FlagLocals, fixVersions, targetParsed)
       IN  /\ acc.maxHotfixMinor # Null
           /\ \/ acc.maxReleaseMinorBeforeTarget = Null
              \/ acc.maxHotfixMinor > acc.maxReleaseMinorBeforeTarget
           /\ ~acc.hasTargetVersion

\* ?targetVersion=v&targetVersion=v: the query parser makes an array of it.
Repeated(v) == [t |-> "arr", v |-> v]

\* The targetVersion query parameters: absent, empty, not a version, a
\* hotfix, two releases, and the array a repeated parameter is parsed into.
HotfixTargets ==
  {Undef, Str(EmptyStr), Str(Backlog), Str(V(2, 1, 1)), Str(V(2, 1, 0)),
   Str(V(2, 2, 0)), Repeated(V(2, 1, 0))}

\* The names of the fixVersions of the issues: the majors below, of and above
\* the targets', a word and a missing name.
HotfixTags ==
  {V(2, 0, 0), V(2, 0, 1), V(2, 1, 0), V(2, 1, 1), V(2, 2, 0), V(2, 2, 1),
   V(1, 0, 1), V(3, 0, 0), V(3, 0, 1), Backlog, EmptyStr}

TagLists == UNION {[1..n -> HotfixTags] : n \in 0..MaxTags}

Issue(key, fv) == [key |-> key, fixVersions |-> fv]

\* What fetchStoriesWithFixVersions can resolve with.
IssueInputs ==
  {<<>>} \cup {<<Issue("S-1", fv)>> : fv \in TagLists}
    \cup {<<Issue("S-1", fv), Issue("S-2", <<V(2, 0, 1)>>)>> :
             fv \in {l \in TagLists : Len(l) <= 2}}

\* The checks of the handler before its fetch: the response it returns with,
\* or status 0 when it goes on. parseVersion throws on a target that is not
\* a string (it has no match method) and the catch block answers 500.
TargetCheck(targetVersion) ==
  IF targetVersion.t = "undef" \/ targetVersion = Str(EmptyStr)
  THEN [NoPmhResp EXCEPT !.status = 400,
                         !.error = "targetVersion query parameter is required"]
  ELSE IF targetVersion.t # "str"
  THEN [NoPmhResp EXCEPT !.status = 500, !.error = "Failed to perform hotfix check"]
  ELSE IF pmhParseVersion(targetVersion.v) = NullVersion
  THEN [NoPmhResp EXCEPT !.status = 400, !.error = "Invalid version format. Expected X.Y.Z"]
  ELSE IF pmhParseVersion(targetVersion.v).patch # 0
  THEN [NoPmhResp EXCEPT !.status = 400,
                         !.error = "Target version must be a release version (patch must be 0)"]
  ELSE NoPmhResp

\* missingStories: the issues shouldFlagStory flags, in the order fetched
MissingStories(issues, targetParsed) ==
  SelectSeq(issues, LAMBDA issue : shouldFlagStory(issue.fixVersions, targetParsed))

\* GET /api/hotfix-check arrives: the checks of the target, then the fetch.
HotfixCheckRequest ==
  /\ pmh.pc = "idle"
  /\ \E q \in HotfixTargets :
       pmh' = [pmh EXCEPT !.target = q, !.resp = TargetCheck(q),
                          !.pc = IF TargetCheck(q).status = 0 THEN "fetch" ELSE "done"]
  /\ UNCHANGED <<ledger, now, pc, body, cms, resp, last, disk, mx, hist, ui>>

\* The fetch resolved: every issue is evaluated, pmh.json is written, res.json.
HotfixCheckFetched ==
  /\ pmh.pc = "fetch"
  /\ \E issues \in IssueInputs :
       LET missing == MissingStories(issues, pmhParseVersion(pmh.target.v))
       IN  pmh' = [pmh EXCEPT
                     !.issues = issues,
                     !.file = [written |-> TRUE, targetVersion |-> pmh.target,
                               missingStories |-> missing],
                     !.resp = [NoPmhResp EXCEPT !.status = 200,
                                                !.targetVersion = pmh.target,
                                                !.missingStories = missing],
                     !.pc = "done"]
  /\ UNCHANGED <<ledger, now, pc, body, cms, resp, last, disk, mx, hist, ui>>

\* The fetch rejected: the catch block answers 500.
HotfixCheckFetchFails ==
  /\ pmh.pc = "fetch"
  /\ pmh' = [pmh EXCEPT !.resp = [NoPmhResp EXCEPT !.status = 500,
                                     !.error = "Failed to perform hotfix check"],
                        !.pc = "done"]
  /\ UNCHANGED <<ledger, now, pc, body, cms, resp, last, disk, mx, hist, ui>>

NextPmh ==
  \/ HotfixCheckRequest
  \/ HotfixCheckFetched
  \/ HotfixCheckFetchFails

SpecPmh == Init /\ [][NextPmh]_vars

(************************* the version matrix ******************************)
\* A CM as fetchDeployedCMs maps it, with the fields the matrix reads.
DeployedCm(key, co, cl, fv, date) ==
  [key |-> key, components |-> co, clientEnvironments |-> cl, fixVersions |-> fv,
   targetDeploymentDate |-> date]

MatrixTags == {V(1, 2, 0), V(1, 3, 0), VZ(1, 2, 0), Backlog}
MatrixTagLists == {<<>>} \cup {<<v>> : v \in MatrixTags}
                    \cup {<<v, w>> : v \in MatrixTags, w \in MatrixTags}

\* The CMs with key k and date d that the fetch can resolve with.
MatrixRecords(k, d) ==
  {DeployedCm(k, co, cl, fv, d) :
     co \in {<<>>, <<"Core">>, <<"Core", "Ui">>},
     cl \in {<<>>, <<"Acme">>, <<"Acme", "Beta">>},
     fv \in MatrixTagLists}

\* One or two CMs; the second has no targetDeploymentDate (null).
MatrixCms ==
  {<<>>} \cup {<<a>> : a \in MatrixRecords("CM-1", "2026-01-01")}
    \cup {<<a, b>> : a \in MatrixRecords("CM-1", "2026-01-01"),
                     b \in MatrixRecords("CM-2", "null")}

\* f[k] = v, on an object f that may not have the key k yet
Assign(f, k, v) == [x \in DOMAIN f \cup {k} |-> IF x = k THEN v ELSE f[x]]

\* versionMatrix[client][component], undefined (NoEntry) when absent
Existing(matrix, client, component) ==
  IF component \in DOMAIN matrix[client] THEN matrix[client][component] ELSE NoEntry

\* Faulty variant: the first version seen for the pair is never replaced.
ReplacesNever(version, existing) == existing = NoEntry

\* Faulty variant: every version replaces the stored one.
ReplacesAlways(version, existing) == TRUE

\* Faulty variant: a version equal to the stored one replaces it.
ReplacesOnTie(version, existing) ==
  existing = NoEntry \/ compareVersions(version, existing.version) >= 0

\* !existing || compareVersions(version, existing.version) > 0
Replaces(version, existing) ==
  existing = NoEntry \/ compareVersions(version, existing.version) > 0

\* The body of cm.fixVersions.forEach, for one version.
MatrixPut(matrix, cm, client, component, version) ==
  IF ~IsVersionString(version) THEN matrix
  ELSE IF Replaces(version, Existing(matrix, client, component))
  THEN [matrix EXCEPT ![client] =
          Assign(@, component, [version |-> version, cmKey |-> cm.key,
                                deployedAt |-> cm.targetDeploymentDate])]
  ELSE matrix

RECURSIVE OverVersions(_, _, _, _, _)
OverVersions(matrix, cm, client, component, versions) ==
  IF versions = <<>> THEN matrix
  ELSE OverVersions(MatrixPut(matrix, cm, client, component, Head(versions)),
                    cm, client, component, Tail(versions))

RECURSIVE OverComponents(_, _, _, _)
OverComponents(matrix, cm, client, components) ==
  IF components = <<>> THEN matrix
  ELSE OverComponents(OverVersions(matrix, cm, client, Head(components), cm.fixVersions),
                      cm, client, Tail(components))

\* cm.clientEnvironments.forEach: the client's object is made when it is
\* missing, whether or not an entry follows.
RECURSIVE OverClients(_, _, _)
OverClients(matrix, cm, clients) ==
  IF clients = <<>> THEN matrix
  ELSE LET client == Head(clients)
           made == IF client \in DOMAIN matrix THEN matrix ELSE Assign(matrix, client, <<>>)
       IN  OverClients(OverComponents(made, cm, client, cm.components), cm, Tail(clients))

RECURSIVE OverCms(_, _)
OverCms(matrix, c) ==
  IF c = <<>> THEN matrix
  ELSE OverCms(OverClients(matrix, Head(c), Head(c).clientEnvironments), Tail(c))

versionMatrix(c) == OverCms(<<>>, c)

\* The response: the matrix, its components and its clients (as sets: the
\* sorted arrays without their order).
ClientVersions(c) ==
  LET matrix == versionMatrix(c)
  IN  [NoMxResp EXCEPT !.status = 200, !.matrix = matrix,
                       !.components = UNION {DOMAIN matrix[cl] : cl \in DOMAIN matrix},
                       !.clients = DOMAIN matrix]

\* GET /api/hotfix-booking/client-versions arrives and awaits its fetch.
ClientVersionsRequest ==
  /\ mx.pc = "idle"
  /\ mx' = [mx EXCEPT !.pc = "fetch"]
  /\ UNCHANGED <<ledger, now, pc, body, cms, resp, last, disk, pmh, hist, ui>>

\* The fetch resolved with one of the results: the matrix is built and sent.
ClientVersionsFetchedFrom(results) ==
  /\ mx.pc = "fetch"
  /\ \E c \in results : mx' = [pc |-> "done", cms |-> c, resp |-> ClientVersions(c)]
  /\ UNCHANGED <<ledger, now, pc, body, cms, resp, last, disk, pmh, hist, ui>>

ClientVersionsFetched == ClientVersionsFetchedFrom(MatrixCms)

\* The fetch rejected: the catch block answers 500.
ClientVersionsFetchFails ==
  /\ mx.pc = "fetch"
  /\ mx' = [mx EXCEPT !.pc = "done", !.resp = [NoMxResp EXCEPT !.status = 500]]
  /\ UNCHANGED <<ledger, now, pc, body, cms, resp, last, disk, pmh, hist, ui>>

NextMx ==
  \/ ClientVersionsRequest
  \/ ClientVersionsFetched
  \/ ClientVersionsFetchFails

SpecMx == Init /\ [][NextMx]_vars

(***************************** the history *********************************)
DefaultMajor == 9   \* req.query.major ? parseInt(req.query.major) : 9
MinorCount == 5     \* for (let i = 0; i < 5; i++)

\* parseInt of a query parameter: its digits, or NaN
ParseInt(s) == IF s[1].k = "dig" THEN s[1].n ELSE NaN

\* !req.query.x: the parameter is absent or empty ("0" is a non-empty string)
NoParam(x) == x.t = "undef" \/ x = Str(EmptyStr)

requestedMajor(query) ==
  IF NoParam(query.major) THEN DefaultMajor ELSE ParseInt(query.major.v)

\* requestedMinor !== null ? requestedMinor : currentMinor
targetMinor(query, currentMinor) ==
  IF NoParam(query.minor) THEN currentMinor ELSE ParseInt(query.minor.v)

\* recentCMs.forEach / cm.fixVersions.forEach, over the tags in order
RECURSIVE MinorScan(_, _, _)
MinorScan(tags, currentMajor, currentMinor) ==
  IF tags = <<>> THEN currentMinor
  ELSE LET parsed == parseVersion(Head(tags))
       IN  MinorScan(Tail(tags), currentMajor,
                     IF /\ IsVersionString(Head(tags))
                        /\ parsed.major = currentMajor
                        /\ parsed.minor > currentMinor
                     THEN parsed.minor ELSE currentMinor)

currentMinorOf(recentCMs, currentMajor) ==
  MinorScan(Flatten([i \in 1..Len(recentCMs) |-> recentCMs[i].fixVersions]),
            currentMajor, 0)

\* Faulty variant: the minors below zero are kept.
minorVersionsUnclipped(currentMajor, currentMinor) ==
  [i \in 1..MinorCount |-> [major |-> currentMajor, minor |-> currentMinor - (i - 1)]]

\* The last five minors, those below zero left out.
minorVersionsOf(currentMajor, currentMinor) ==
  SelectSeq([i \in 1..MinorCount |->
               [major |-> currentMajor, minor |-> currentMinor - (i - 1)]],
            LAMBDA m : m.minor >= 0)

\* versionCMs.forEach: one 'deployed' entry for each tag of each CM that
\* passes the pattern and is of the target's major and minor.
DeployedEntriesOf(cm, currentMajor, minor) ==
  LET kept == SelectSeq(cm.fixVersions,
                        LAMBDA v : /\ IsVersionString(v)
                                   /\ parseVersion(v).major = currentMajor
                                   /\ parseVersion(v).minor = minor)
  IN  [i \in 1..Len(kept) |-> [version |-> kept[i], type |-> "deployed", cmKey |-> cm.key]]

DeployedEntries(versionCMs, currentMajor, minor) ==
  Flatten([i \in 1..Len(versionCMs) |-> DeployedEntriesOf(versionCMs[i], currentMajor, minor)])

\* hotfixes.some(h => h.version === booking.version && h.type === 'deployed')
alreadyDeployed(hotfixes, booking) ==
  \E i \in 1..Len(hotfixes) :
    hotfixes[i].version = booking.version /\ hotfixes[i].type = "deployed"

\* Faulty variant: the bookings are added without looking at the deployed entries.
BookedEntriesAll(bookings, hotfixes, currentMajor, minor) ==
  LET kept == SelectSeq(bookings,
                        LAMBDA b : /\ parseVersion(b.version).major = currentMajor
                                   /\ parseVersion(b.version).minor = minor)
  IN  [i \in 1..Len(kept) |-> [version |-> kept[i].version, type |-> "booked", cmKey |-> "null"]]

\* bookings.forEach: one 'booked' entry for each booking of the target's major
\* and minor (as parseVersion reads them) that is not among the deployed ones.
BookedEntries(bookings, hotfixes, currentMajor, minor) ==
  LET kept == SelectSeq(bookings,
                        LAMBDA b : /\ parseVersion(b.version).major = currentMajor
                                   /\ parseVersion(b.version).minor = minor
                                   /\ ~alreadyDeployed(hotfixes, b))
  IN  [i \in 1..Len(kept) |-> [version |-> kept[i].version, type |-> "booked", cmKey |-> "null"]]

\* hotfixes.sort((a, b) => compareVersions(b.version, a.version)): stable
RECURSIVE InsertDescending(_, _)
InsertDescending(x, s) ==
  IF s = <<>> THEN <<x>>
  ELSE IF compareVersions(x.version, s[Len(s)].version) <= 0 THEN Append(s, x)
  ELSE Append(InsertDescending(x, SubSeq(s, 1, Len(s) - 1)), s[Len(s)])

RECURSIVE SortDescending(_)
SortDescending(s) ==
  IF s = <<>> THEN <<>>
  ELSE InsertDescending(s[Len(s)], SortDescending(SubSeq(s, 1, Len(s) - 1)))

hotfixesOf(versionCMs, bookings, currentMajor, minor) ==
  LET deployed == DeployedEntries(versionCMs, currentMajor, minor)
  IN  SortDescending(deployed \o BookedEntries(bookings, deployed, currentMajor, minor))

TwoParts(a, b) == <<Dig(a), Dig(b)>>     \* "a.b"

\* The query parameters: none, the major alone, major and minor, "0" for
\* both, and a minor that is not a number.
HistQueries ==
  {NoQuery,
   [major |-> Str(<<Dig(1)>>), minor |-> Undef],
   [major |-> Str(<<Dig(1)>>), minor |-> Str(<<Dig(1)>>)],
   [major |-> Str(<<Dig(0)>>), minor |-> Str(<<Dig(0)>>)],
   [major |-> Str(<<Dig(1)>>), minor |-> Str(Backlog)]}

\* What fetchDeployedCMs(false) can resolve with.
RecentCms ==
  {<<>>,
   <<Cm("CM-1", <<V(1, 1, 1), Backlog>>)>>,
   <<Cm("CM-1", <<V(1, 6, 0)>>), Cm("CM-2", <<V(1, 2, 1)>>)>>,
   <<Cm("CM-1", <<V(9, 2, 1), V(1, 1, 2)>>)>>}

HistTags ==
  {V(1, 1, 1), V(1, 1, 2), VZ(1, 1, 1), V(1, 2, 1), V(9, 2, 1), V(0, 0, 1), Backlog}

\* What fetchCMsByVersion can resolve with: the query matches CMs by one of
\* their fixVersions, the others come along.
VersionCms ==
  {<<>>} \cup {<<Cm("CM-1", <<v>>)>> : v \in HistTags}
    \cup {<<Cm("CM-1", <<V(1, 1, 1), v>>), Cm("CM-2", <<V(1, 1, 2)>>)>> : v \in HistTags}

\* The bookings made before a history request: bodies that are accepted.
HistBodies ==
  {Body(v, Arr(<<"Core">>), Arr(<<"Acme">>), "ana") :
     v \in {V(1, 1, 1), V(1, 1, 2), VZ(1, 1, 1), TwoParts(1, 1), Backlog}}

\* A booking request handled before the history request arrives. The history
\* handler reads the ledger after its last await, so a booking made while it
\* waits is for it a booking made before.
HistBook ==
  /\ hist.pc = "idle"
  /\ \E b \in HistBodies :
       /\ Explored(b)
       /\ Book(b, "r1", {})
  /\ UNCHANGED <<pc, body, cms, ui>>

\* GET /api/hotfix-booking/history arrives and awaits fetchDeployedCMs(false).
HistoryRequestFrom(queries) ==
  /\ hist.pc = "idle"
  /\ \E q \in queries : hist' = [hist EXCEPT !.pc = "recent", !.query = q]
  /\ UNCHANGED <<ledger, now, pc, body, cms, resp, last, disk, pmh, mx, ui>>

HistoryRequest == HistoryRequestFrom(HistQueries)

\* The first fetch resolved: currentMinor, minorVersions and targetMinor are
\* computed and the handler awaits fetchCMsByVersion.
HistoryRecentFetchedFrom(results) ==
  /\ hist.pc = "recent"
  /\ \E c \in results :
       LET currentMajor == requestedMajor(hist.query)
           currentMinor == currentMinorOf(c, currentMajor)
       IN  hist' = [hist EXCEPT
                      !.pc = "byVersion",
                      !.recent = c,
                      !.resp = [NoHistResp EXCEPT
                                  !.currentMajor = currentMajor,
                                  !.currentMinor = currentMinor,
                                  !.minorVersions = minorVersionsOf(currentMajor, currentMinor),
                                  !.targetMinor = targetMinor(hist.query, currentMinor)]]
  /\ UNCHANGED <<ledger, now, pc, body, cms, resp, last, disk, pmh, mx, ui>>

HistoryRecentFetched == HistoryRecentFetchedFrom(RecentCms)

\* The second fetch resolved: the ledger is read, the entries are built and
\* sorted, res.json.
HistoryVersionFetchedFrom(results) ==
  /\ hist.pc = "byVersion"
  /\ \E c \in results :
       hist' = [hist EXCEPT
                  !.pc = "done",
                  !.byVersion = c,
                  !.bookings = loadBookings,
                  !.resp = [@ EXCEPT !.status = 200,
                                     !.hotfixes = hotfixesOf(c, loadBookings,
                                                             hist.resp.currentMajor,
                                                             hist.resp.targetMinor)]]
  /\ UNCHANGED <<ledger, now, pc, body, cms, resp, last, disk, pmh, mx, ui>>

HistoryVersionFetched == HistoryVersionFetchedFrom(VersionCms)

\* One of the two fetches rejected: the catch block answers 500.
HistoryFails ==
  /\ hist.pc \in {"recent", "byVersion"}
  /\ hist' = [hist EXCEPT !.pc = "done", !.resp = [NoHistResp EXCEPT !.status = 500]]
  /\ UNCHANGED <<ledger, now, pc, body, cms, resp, last, disk, pmh, mx, ui>>

NextHist ==
  \/ HistBook
  \/ HistoryRequest
  \/ HistoryRecentFetched
  \/ HistoryVersionFetched
  \/ HistoryFails

SpecHist == Init /\ [][NextHist]_vars

(* Every route that reads the ledger, over few inputs: bookings and         *)
(* next-version computations at any moment, listings, one matrix request   *)
(* and one history request.                                                *)
FrameBodies == RaceBodies \cup {Body(V(1, 1, 2), Arr(<<>>), Arr(<<"Acme">>), "ana")}

FrameBook ==
  /\ \E b \in FrameBodies :
       /\ Explored(b)
       /\ Book(b, "r1", {})
  /\ UNCHANGED <<pc, body, cms, ui>>

FrameNext ==
  /\ \E c \in RaceCms : NextVersion(c, "r1")
  /\ UNCHANGED <<pc, body, cms, ui>>

FrameMatrixCms ==
  {<<>>, <<DeployedCm("CM-1", <<"Core">>, <<"Acme">>, <<V(1, 1, 1)>>, "2026-01-01")>>}

FrameQueries == {[major |-> Str(<<Dig(1)>>), minor |-> Str(<<Dig(1)>>)]}

FrameRecentCms == {<<Cm("CM-1", <<V(1, 1, 1)>>)>>}

NextFrame ==
  \/ FrameBook
  \/ FrameNext
  \/ ListRequest
  \/ ClientVersionsRequest
  \/ ClientVersionsFetchedFrom(FrameMatrixCms)
  \/ ClientVersionsFetchFails
  \/ HistoryRequestFrom(FrameQueries)
  \/ HistoryRecentFetchedFrom(FrameRecentCms)
  \/ HistoryVersionFetchedFrom(RaceCms)
  \/ HistoryFails

SpecFrame == Init /\ [][NextFrame]_vars

(********************* the dashboard's booking page ************************)
\* public/js/hotfix-booking.js in two browsers against the one server. A
\* request is handled by the server and its response reaches the page in
\* one step.
UiCms == {<<>>, <<Cm("CM-1", <<V(1, 1, 1)>>)>>}

\* loadNextVersion(), the response out: nextVersion is left as it is when
\* the response carries an error and no nextVersion.
LoadedNextVersion(d, out) ==
  IF out.error # "" /\ out.nextVersion = NoVersion
  THEN ui[d].nextVersion
  ELSE out.nextVersion

\* The server's part of loadNextVersion(): the route answers, or its fetch fails.
NextVersionAnswers(d) ==
  \/ \E c \in UiCms : NextVersion(c, "r1")
  \/ NextVersionFailed("r1")

\* onTabShow(): the three loads start, unless the field options are loaded.
UiTabShow(d) ==
  /\ ~ui[d].loaded
  /\ ui[d].loads = {}
  /\ ui' = [ui EXCEPT ![d].loads = {"next", "list"}, ![d].loaded = TRUE]
  /\ UNCHANGED <<ledger, now, pc, body, cms, resp, last, disk, pmh, mx, hist>>

\* refresh(), the Refresh Data button: the three loads start again.
UiRefresh(d) ==
  /\ ui[d].loaded
  /\ ui[d].loads = {}
  /\ ui' = [ui EXCEPT ![d].loads = {"next", "list"}, ![d].rejected = NoVersion]
  /\ UNCHANGED <<ledger, now, pc, body, cms, resp, last, disk, pmh, mx, hist>>

\* loadNextVersion() started by onTabShow or refresh answers.
UiNextLoaded(d) ==
  /\ "next" \in ui[d].loads
  /\ NextVersionAnswers(d)
  /\ ui' = [ui EXCEPT ![d].loads = @ \ {"next"},
                       ![d].nextVersion = LoadedNextVersion(d, resp')]
  /\ UNCHANGED <<pc, body, cms>>

\* loadBookings() started by onTabShow or refresh answers.
UiListLoaded(d) ==
  /\ "list" \in ui[d].loads
  /\ ListBookings
  /\ ui' = [ui EXCEPT ![d].loads = @ \ {"list"}]
  /\ UNCHANGED <<pc, body, cms>>

\* The user picks components and client environments.
UiSelect(d) ==
  /\ ui[d].pc = "idle"
  /\ ~ui[d].selected
  /\ ui' = [ui EXCEPT ![d].selected = TRUE]
  /\ UNCHANGED <<ledger, now, pc, body, cms, resp, last, disk, pmh, mx, hist>>

\* bookHotfix() up to its fetch: the click is dropped without a nextVersion
\* or without selections; the button is disabled while the request runs.
UiClickBook(d) ==
  /\ ui[d].pc = "idle"
  /\ ui[d].nextVersion # NoVersion
  /\ ui[d].selected
  /\ ui' = [ui EXCEPT ![d].pc = "booking", ![d].submitted = ui[d].nextVersion]
  /\ UNCHANGED <<ledger, now, pc, body, cms, resp, last, disk, pmh, mx, hist>>

UiBody(d) == Body(ui[d].submitted, Arr(<<"Core">>), Arr(<<"Acme">>), "Dashboard User")

\* bookHotfix(), the response of POST /book: with data.error a toast and
\* return; else the selections are reset and loadNextVersion() is awaited.
UiBooked(d) ==
  /\ ui[d].pc = "booking"
  /\ Explored(UiBody(d))
  /\ Book(UiBody(d), "r1", {})
  /\ ui' = IF resp'.error # ""
           THEN [ui EXCEPT ![d].pc = "idle", ![d].submitted = NoVersion,
                           ![d].rejected = IF resp'.status = 409
                                           THEN ui[d].submitted ELSE @]
           ELSE [ui EXCEPT ![d].pc = "reloadNext", ![d].submitted = NoVersion,
                           ![d].selected = FALSE, ![d].rejected = NoVersion]
  /\ UNCHANGED <<pc, body, cms>>

\* bookHotfix() after a success: await loadNextVersion().
UiReloadNext(d) ==
  /\ ui[d].pc = "reloadNext"
  /\ NextVersionAnswers(d)
  /\ ui' = [ui EXCEPT ![d].pc = "reloadList",
                       ![d].nextVersion = LoadedNextVersion(d, resp')]
  /\ UNCHANGED <<pc, body, cms>>

\* bookHotfix() after a success: await loadBookings(), then the toast.
UiReloadList(d) ==
  /\ ui[d].pc = "reloadList"
  /\ ListBookings
  /\ ui' = [ui EXCEPT ![d].pc = "idle"]
  /\ UNCHANGED <<pc, body, cms>>

NextUi ==
  \E d \in Dashboards :
    \/ UiTabShow(d)
    \/ UiRefresh(d)
    \/ UiNextLoaded(d)
    \/ UiListLoaded(d)
    \/ UiSelect(d)
    \/ UiClickBook(d)
    \/ UiBooked(d)
    \/ UiReloadNext(d)
    \/ UiReloadList(d)

SpecUi == Init /\ [][NextUi]_vars

(**************************** properties ***********************************)
\* The tags of the CMs c that match the version pattern.
TagsOf(c) ==
  {t \in UNION {Range(c[i].fixVersions) : i \in 1..Len(c)} : IsVersionString(t)}

\* The request body b passes the handler's validation.
ValidBody(b) ==
  /\ b.version # EmptyStr
  /\ b.components.t = "arr" /\ b.components.v # <<>>
  /\ b.clientEnvironments.t = "arr" /\ b.clientEnvironments.v # <<>>

C3_DuplicateRejected ==
  (/\ last.op = "book"
   /\ ValidBody(last.body)
   /\ \E i \in 1..Len(last.before) : last.before[i].version = last.body.version) =>
    /\ resp.status = 409
    /\ \E i \in 1..Len(last.before) : resp.booking = last.before[i]
    /\ resp.booking.version = last.body.version
    /\ ledger = last.before

\* The second booking of the ledger was asked for again.
C3_Witness ==
  /\ last.op = "book"
  /\ Len(last.before) = 2
  /\ last.before[2].version = last.body.version
  /\ ValidBody(last.body)
  /\ resp.status = 409

\* C4: when calculateNextVersion returns, the persisted ledger holds no booking
\* whose version is among the deployed versions it was given, and the reported
\* highest version is a deployed one or one of the bookings that remain.
C4_ReconciledBeforeArithmetic ==
  (last.op = "next") =>
    /\ \A i \in 1..Len(ledger) : ledger[i].version \notin TagsOf(last.cms)
    /\ resp.currentHighest # NoVersion =>
         resp.currentHighest \in
           TagsOf(last.cms) \cup {ledger[i].version : i \in 1..Len(ledger)}

\* A booking was evicted and the highest version is the deployed one.
C4_Witness ==
  /\ last.op = "next"
  /\ Len(ledger) < Len(last.before)
  /\ ledger # <<>>
  /\ resp.currentHighest \in TagsOf(last.cms)

\* C5: reconciliation against the deployed set removes exactly the bookings
\* whose version is in the set; the others stay, in order, fields unchanged.
C5_EvictsExactlyDeployed ==
  (last.op = "next") =>
    ledger = SelectSeq(last.before, LAMBDA b : b.version \notin TagsOf(last.cms))

\* One booking of two was evicted.
C5_Witness ==
  /\ last.op = "next"
  /\ Len(last.before) = 2
  /\ Len(ledger) = 1

\* The (major, minor, patch) a version string denotes.
Triple(v) == <<v[1].n, v[2].n, v[3].n>>

Above(t, u) ==
  \/ t[1] > u[1]
  \/ t[1] = u[1] /\ t[2] > u[2]
  \/ t[1] = u[1] /\ t[2] = u[2] /\ t[3] > u[3]

\* The parseable deployed versions of c and the parseable versions booked in l.
KnownVersions(c, l) ==
  TagsOf(c) \cup {v \in {l[i].version : i \in 1..Len(l)} : IsVersionString(v)}

\* C6: a next-version computation that repeats the one run just before it, on
\* the same deployed set, evicts nothing and leaves the ledger as that one left it.
C6_ReconcileIdempotent ==
  (last.op = "next" /\ last.repeat > 0) => ledger = last.before

\* The repeated computation had evicted a booking.
C6_Witness ==
  /\ last.op = "next"
  /\ last.repeat = 2
  /\ ledger # <<>>

\* C7: when deployed and remaining booked versions exist, currentHighest is
\* their maximum in (major, minor, patch) order, nextVersion is it with patch + 1
\* and baseVersion is it with patch 0.
C7_HighestNextBase ==
  (last.op = "next" /\ KnownVersions(last.cms, ledger) # {}) =>
    /\ resp.currentHighest \in KnownVersions(last.cms, ledger)
    /\ \A v \in KnownVersions(last.cms, ledger) :
         ~Above(Triple(v), Triple(resp.currentHighest))
    /\ LET m == Triple(resp.currentHighest)
       IN  /\ resp.nextVersion = V(m[1], m[2], m[3] + 1)
           /\ resp.baseVersion = V(m[1], m[2], 0)

\* The highest has a lower patch than another known version of a lower minor.
C7_Witness ==
  /\ last.op = "next"
  /\ resp.currentHighest # NoVersion
  /\ \E v \in KnownVersions(last.cms, ledger) :
       /\ Triple(v)[3] > Triple(resp.currentHighest)[3]
       /\ Triple(v)[2] < Triple(resp.currentHighest)[2]
  /\ \E i \in 1..Len(ledger) : IsVersionString(ledger[i].version)

\* C8: a next-version computation that finds a booking of a version v that is
\* not among the deployed versions returns currentHighest >= v and nextVersion > v.
C8_BookingShiftsNext ==
  (last.op = "next") =>
    \A i \in 1..Len(last.before) :
      LET v == last.before[i].version
      IN  (IsVersionString(v) /\ v \notin TagsOf(last.cms)) =>
            /\ resp.currentHighest # NoVersion
            /\ ~Above(Triple(v), Triple(resp.currentHighest))
            /\ Above(Triple(resp.nextVersion), Triple(v))

\* The booked version is above every deployed one and becomes currentHighest.
C8_Witness ==
  /\ last.op = "next"
  /\ TagsOf(last.cms) # {}
  /\ \E i \in 1..Len(last.before) :
       /\ IsVersionString(last.before[i].version)
       /\ last.before[i].version \notin TagsOf(last.cms)
       /\ resp.currentHighest = last.before[i].version
       /\ \A t \in TagsOf(last.cms) : Above(Triple(last.before[i].version), Triple(t))

\* C9: the next-version computation answers "No deployed versions found" (no
\* nextVersion, status 200) exactly when no parseable deployed version and no
\* parseable remaining booked version exists.
C9_NoDataIffEmpty ==
  (last.op = "next") =>
    /\ resp.status = 200
    /\ (resp.nextVersion = NoVersion) <=> (KnownVersions(last.cms, ledger) = {})
    /\ (resp.error = "No deployed versions found.") <=> (resp.nextVersion = NoVersion)
    /\ (resp.error = "") <=> (resp.nextVersion # NoVersion)

\* No data although the ledger holds a booking and a CM carries a tag.
C9_Witness ==
  /\ last.op = "next"
  /\ resp.nextVersion = NoVersion
  /\ ledger # <<>>
  /\ last.cms # <<>>

\* x is an empty list or is missing.
EmptyOrMissing(x) == x.t = "undef" \/ (x.t = "arr" /\ x.v = <<>>)

\* C10: a booking request with an empty or missing components or
\* clientEnvironments list is answered 400 and the ledger is left unchanged.
C10_EmptyListsRejected ==
  (/\ last.op = "book"
   /\ EmptyOrMissing(last.body.components) \/ EmptyOrMissing(last.body.clientEnvironments)) =>
    /\ resp.status = 400
    /\ ledger = last.before

\* An empty clientEnvironments list with everything else in order.
C10_Witness ==
  /\ last.op = "book"
  /\ last.body.clientEnvironments = Arr(<<>>)
  /\ last.body.components = Arr(<<"Core">>)
  /\ \A i \in 1..Len(ledger) : ledger[i].version # last.body.version
  /\ resp.status = 400

\* C11: no two bookings of the ledger share an id, whatever the clock did
\* between the two requests that created them.
C11_UniqueIds ==
  \A i, j \in 1..Len(ledger) : i # j => ledger[i].id # ledger[j].id

\* C12: a handler that could not read the ledger file fails: it answers 500,
\* never with what an empty ledger gives, and it leaves the file as it was.
C12_ReadFailureFails ==
  (last.op \in {"book", "next", "list"} /\ last.disk # "ok") =>
    /\ resp.status = 500
    /\ ledger = last.before

\* C13: after a process died inside a write of the ledger, the file parses
\* and holds the whole previous ledger or the whole new one.
C13_CrashLeavesWholeLedger ==
  /\ last.op = "bookcrash" =>
       /\ disk = "ok"
       /\ ledger \in {last.before, Append(last.before, NewBooking(last.body))}
  /\ last.op = "nextcrash" =>
       /\ disk = "ok"
       /\ ledger \in {last.before, Cleanup(last.before, last.cms)}

\* C14: with requests in flight together, no update is lost. The handler that
\* ran last found the ledger last.before: a booking it dropped is one whose
\* version the CMs of this next-version request carry, a booking it added is
\* the one this booking request created (never one evicted earlier), and the
\* booking it answered 200 with is in the ledger.
C14_NoLostUpdate ==
  /\ \A b \in Range(last.before) \ Range(ledger) :
       last.op = "next" /\ b.version \in deployedVersions(last.cms)
  /\ \A b \in Range(ledger) \ Range(last.before) :
       last.op = "book" /\ resp.status = 200 /\ b = resp.booking
  /\ (last.op = "book" /\ resp.status = 200) => ledger = Append(last.before, resp.booking)
  /\ last.op = "next" => ledger = Cleanup(last.before, last.cms)

\* A next-version request evicted one of two bookings while a booking
\* request was waiting for its handler.
C14_Witness ==
  /\ last.op = "next"
  /\ Len(last.before) = 2
  /\ Len(ledger) = 1
  /\ \E q \in Req \ {last.r} : pc[q] = "book"

\* The hotfix check answered 200: every issue fetched was evaluated.
Evaluated == pmh.pc = "done" /\ pmh.resp.status = 200

\* The issue is in the missingStories of the response.
Flagged(issue) == issue \in Range(pmh.resp.missingStories)

\* The tags that parse and are not of a major below the target's.
KeptTags(tags, t) == {n \in Range(tags) : IsVersionString(n) /\ n[1].n >= t[1].n}
HotfixMinors(tags, t) == {n[2].n : n \in {k \in KeptTags(tags, t) : k[3].n # 0 /\ k[2].n < t[2].n}}
ReleaseMinors(tags, t) == {n[2].n : n \in {k \in KeptTags(tags, t) : k[3].n = 0 /\ k[2].n <= t[2].n}}
HasTarget(tags, t) ==
  \E n \in Range(tags) : IsVersionString(n) /\ \A i \in 1..3 : n[i].n = t[i].n

\* C15: an issue is flagged exactly when a kept hotfix tag has a minor below
\* the target's, the largest such minor is above every minor of a kept release
\* tag that is at most the target's (or there is no such tag), and no tag is
\* the target.
C15_FlaggedExactlyWhen ==
  Evaluated =>
    \A i \in 1..Len(pmh.issues) :
      LET tags == pmh.issues[i].fixVersions
          t == pmh.target.v
      IN  Flagged(pmh.issues[i]) <=>
            /\ HotfixMinors(tags, t) # {}
            /\ \E h \in HotfixMinors(tags, t) : \A r \in ReleaseMinors(tags, t) : h > r
            /\ ~HasTarget(tags, t)

\* Hotfixed into the 2.1 line, released in 2.0, target 2.2.0: flagged.
C15_Witness ==
  /\ Evaluated
  /\ pmh.target = Str(V(2, 2, 0))
  /\ pmh.issues = <<Issue("S-1", <<V(2, 0, 0), V(2, 1, 1)>>)>>
  /\ pmh.resp.missingStories = pmh.issues

\* C16: an issue none of whose parseable tags is of the target's major, lower
\* or higher, is never flagged.
C16_OtherMajorNeverFlagged ==
  Evaluated =>
    \A i \in 1..Len(pmh.issues) :
      (\A n \in Range(pmh.issues[i].fixVersions) :
         IsVersionString(n) => n[1].n # pmh.target.v[1].n)
        => ~Flagged(pmh.issues[i])

\* C17: a flagged tag list is not flagged once the target's own version is
\* added to it, and an issue one of whose tags is the target is not flagged.
C17_TargetClearsFlag ==
  Evaluated =>
    \A i \in 1..Len(pmh.issues) :
      LET tags == pmh.issues[i].fixVersions
          targetParsed == pmhParseVersion(pmh.target.v)
      IN  /\ Flagged(pmh.issues[i]) =>
               ~shouldFlagStory(Append(tags, pmh.target.v), targetParsed)
          /\ HasTarget(tags, pmh.target.v) => ~Flagged(pmh.issues[i])

\* Two issues with the same hotfix tag; the one that also carries the target
\* is not flagged, the other is.
C17_Witness ==
  /\ Evaluated
  /\ pmh.target = Str(V(2, 1, 0))
  /\ pmh.issues = <<Issue("S-1", <<V(2, 0, 1), V(2, 1, 0)>>), Issue("S-2", <<V(2, 0, 1)>>)>>
  /\ pmh.resp.missingStories = <<Issue("S-2", <<V(2, 0, 1)>>)>>

\* The target is missing, does not parse, or is not a release point.
BadTarget(q) == q.t # "str" \/ ~IsVersionString(q.v) \/ q.v[3].n # 0

\* C18: a request with a bad target is answered 400 with no flagged list and
\* no snapshot written, and the issues are fetched and evaluated only for a
\* target whose patch is 0.
C18_BadTargetRejected ==
  /\ (pmh.pc = "done" /\ BadTarget(pmh.target)) =>
       /\ pmh.resp.status = 400
       /\ pmh.resp.missingStories = <<>>
       /\ ~pmh.file.written
  /\ (pmh.pc = "fetch" \/ Evaluated \/ pmh.file.written) => ~BadTarget(pmh.target)

\* The client-versions request answered 200 with a matrix.
Built == mx.pc = "done" /\ mx.resp.status = 200

AllClients == UNION {Range(mx.cms[i].clientEnvironments) : i \in 1..Len(mx.cms)}
AllComponents == UNION {Range(mx.cms[i].components) : i \in 1..Len(mx.cms)}

\* The parseable tags deployed to the pair: <<i, j>> is tag j of record i.
Deployed(client, component) ==
  UNION {{<<i, j>> : j \in {k \in 1..Len(mx.cms[i].fixVersions) :
                               IsVersionString(mx.cms[i].fixVersions[k])}} :
           i \in {r \in 1..Len(mx.cms) :
                     /\ client \in Range(mx.cms[r].clientEnvironments)
                     /\ component \in Range(mx.cms[r].components)}}

TagAt(p) == Triple(mx.cms[p[1]].fixVersions[p[2]])

HasEntry(client, component) ==
  client \in DOMAIN mx.resp.matrix /\ component \in DOMAIN mx.resp.matrix[client]

\* C19: the matrix has an entry exactly for the pairs a parseable version was
\* deployed to, and the entry's version is the greatest of those versions in
\* the order of (major, minor, patch).
C19_MatrixHoldsMaximum ==
  Built =>
    /\ DOMAIN mx.resp.matrix \subseteq AllClients
    /\ \A client \in DOMAIN mx.resp.matrix :
         DOMAIN mx.resp.matrix[client] \subseteq AllComponents
    /\ \A client \in AllClients, component \in AllComponents :
         IF Deployed(client, component) = {}
         THEN ~HasEntry(client, component)
         ELSE /\ HasEntry(client, component)
              /\ LET stored == Triple(mx.resp.matrix[client][component].version)
                 IN  /\ \E p \in Deployed(client, component) : TagAt(p) = stored
                     /\ \A p \in Deployed(client, component) : ~Above(TagAt(p), stored)

\* Acme/Core got 1.2.0 from the first CM and 1.3.0 from the second.
C19_Witness ==
  /\ Built
  /\ mx.cms = <<DeployedCm("CM-1", <<"Core">>, <<"Acme">>, <<V(1, 2, 0)>>, "2026-01-01"),
                DeployedCm("CM-2", <<"Core">>, <<"Acme">>, <<V(1, 3, 0)>>, "null")>>
  /\ mx.resp.matrix["Acme"]["Core"] =
       [version |-> V(1, 3, 0), cmKey |-> "CM-2", deployedAt |-> "null"]

\* Record i carries, for the pair, a tag that no tag deployed to the pair is above.
CarriesMaximum(i, client, component) ==
  \E p \in Deployed(client, component) :
    /\ p[1] = i
    /\ \A q \in Deployed(client, component) : ~Above(TagAt(q), TagAt(p))

\* C20: the cmKey and deployedAt of an entry are those of the first record
\* that carries the pair's maximum version; a later record with an equal
\* version does not change them.
C20_ProvenanceOfFirstMaximum ==
  Built =>
    \A client \in AllClients, component \in AllComponents :
      HasEntry(client, component) =>
        \E i \in 1..Len(mx.cms) :
          /\ CarriesMaximum(i, client, component)
          /\ \A k \in 1..(i - 1) : ~CarriesMaximum(k, client, component)
          /\ mx.resp.matrix[client][component].cmKey = mx.cms[i].key
          /\ mx.resp.matrix[client][component].deployedAt = mx.cms[i].targetDeploymentDate

\* Both CMs deployed the same version to Acme/Core, spelled 1.2.0 and 1.2.00:
\* the entry is the first CM's.
C20_Witness ==
  /\ Built
  /\ mx.cms = <<DeployedCm("CM-1", <<"Core">>, <<"Acme">>, <<V(1, 2, 0)>>, "2026-01-01"),
                DeployedCm("CM-2", <<"Core">>, <<"Acme">>, <<VZ(1, 2, 0)>>, "null")>>
  /\ mx.resp.matrix["Acme"]["Core"] =
       [version |-> V(1, 2, 0), cmKey |-> "CM-1", deployedAt |-> "2026-01-01"]

\* The history request answered 200 with its window.
Windowed == hist.pc = "done" /\ hist.resp.status = 200

\* C21: a version string that fails the pattern is ignored wherever it
\* appears; in particular no entry of a history window carries one.
C21_UnparseableIgnored ==
  Windowed =>
    \A i \in 1..Len(hist.resp.hotfixes) : IsVersionString(hist.resp.hotfixes[i].version)

\* The orders the records s can come in.
Orders(s) ==
  {[i \in 1..Len(s) |-> s[f[i]]] :
     f \in {g \in [1..Len(s) -> 1..Len(s)] : \A i, j \in 1..Len(s) : g[i] = g[j] => i = j}}

\* The entries of a matrix as (client, component, version value).
Cells(matrix) ==
  UNION {{<<cl, co, Triple(matrix[cl][co].version)>> : co \in DOMAIN matrix[cl]} :
           cl \in DOMAIN matrix}

\* C22: the matrix built from the same records in any other order has the
\* same (client, component) keys and the same version value in each entry.
C22_ValueIndependentOfOrder ==
  Built => \A p \in Orders(mx.cms) : Cells(versionMatrix(p)) = Cells(mx.resp.matrix)

\* Two CMs with the same version for Acme/Core: the entry is the first CM's,
\* in the other order it is the second CM's, and the value is the same.
C22_Witness ==
  /\ Built
  /\ Len(mx.cms) = 2
  /\ Cells(mx.resp.matrix) = {<<"Acme", "Core", <<1, 2, 0>>>>}
  /\ mx.resp.matrix["Acme"]["Core"].cmKey = "CM-1"
  /\ versionMatrix(<<mx.cms[2], mx.cms[1]>>)["Acme"]["Core"].cmKey = "CM-2"

\* C23: every entry of a history window is a version of the target's major
\* and minor, and no 'booked' entry denotes the same version as a 'deployed'
\* entry of the window.
C23_WindowDeduplicated ==
  Windowed =>
    LET hotfixes == hist.resp.hotfixes
    IN  /\ \A i \in 1..Len(hotfixes) :
             /\ IsVersionString(hotfixes[i].version)
             /\ Triple(hotfixes[i].version)[1] = hist.resp.currentMajor
             /\ Triple(hotfixes[i].version)[2] = hist.resp.targetMinor
        /\ \A i, j \in 1..Len(hotfixes) :
             (hotfixes[i].type = "booked" /\ hotfixes[j].type = "deployed")
               => Triple(hotfixes[i].version) # Triple(hotfixes[j].version)

\* The first fetch of the history request has resolved and it has not failed.
MinorsKnown == hist.pc = "byVersion" \/ Windowed

\* The minors of the parseable tags of the recent CMs that are of the major asked for.
RecentMinors ==
  {Triple(t)[2] : t \in {u \in TagsOf(hist.recent) : Triple(u)[1] = hist.resp.currentMajor}}

\* C24: currentMinor is the greatest minor among the parseable tags of the
\* target major (0 without any), minorVersions counts down from it over at most
\* five minors and stops at 0, and targetMinor is currentMinor when the request
\* names no minor.
C24_MinorsOfHistory ==
  MinorsKnown =>
    LET currentMinor == hist.resp.currentMinor
        minorVersions == hist.resp.minorVersions
    IN  /\ IF RecentMinors = {} THEN currentMinor = 0
           ELSE currentMinor \in RecentMinors /\ \A n \in RecentMinors : n <= currentMinor
        /\ Len(minorVersions) = IF currentMinor >= 4 THEN 5 ELSE currentMinor + 1
        /\ \A i \in 1..Len(minorVersions) :
             /\ minorVersions[i].minor = currentMinor - (i - 1)
             /\ minorVersions[i].major = hist.resp.currentMajor
        /\ hist.query.minor = Undef => hist.resp.targetMinor = currentMinor

\* Major 1 asked for, no minor; the recent CMs reach minor 1: the list is 1, 0.
C24_Witness ==
  /\ Windowed
  /\ hist.query = [major |-> Str(<<Dig(1)>>), minor |-> Undef]
  /\ hist.resp.currentMinor = 1
  /\ hist.resp.targetMinor = 1
  /\ Len(hist.resp.minorVersions) = 2

\* The version strings v and w denote the same (major, minor, patch).
SameTriple(v, w) == IsVersionString(v) /\ IsVersionString(w) /\ Triple(v) = Triple(w)

\* C25: the ledger identifies versions by value. A booking request for the
\* triple of an existing booking is answered 409, and after a next-version
\* computation no booking is left whose triple a deployed tag denotes.
C25_IdentityByValue ==
  /\ (/\ last.op = "book"
      /\ ValidBody(last.body)
      /\ \E i \in 1..Len(last.before) :
           SameTriple(last.before[i].version, last.body.version))
       => resp.status = 409
  /\ last.op = "next" =>
       \A i \in 1..Len(ledger) :
         \A t \in TagsOf(last.cms) : ~SameTriple(ledger[i].version, t)

\* C26: the nextVersion a next-version computation answers with is above
\* every deployed and every booked version it knows, and a booking request for
\* it that is handled next is answered 200.
C26_NextVersionIsFree ==
  /\ (last.op = "next" /\ resp.nextVersion # NoVersion) =>
       \A v \in KnownVersions(last.cms, ledger) :
         Above(Triple(resp.nextVersion), Triple(v))
  /\ (last.op = "book" /\ last.offered /\ ValidBody(last.body))
       => resp.status = 200 /\ ledger = Append(last.before, resp.booking)

\* With 1.1.1 booked, 1.1.2 was offered, requested and booked.
C26_Witness ==
  /\ last.op = "book"
  /\ last.offered
  /\ last.body.version = V(1, 1, 2)
  /\ resp.status = 200
  /\ Len(ledger) = 2
  /\ ledger[1].version = V(1, 1, 1)

\* C27: every booking of the ledger has a version that matches the pattern.
C27_OnlyVersionsPersisted ==
  \A i \in 1..Len(ledger) : IsVersionString(ledger[i].version)

\* C28: a step changes the ledger only as the booking handler answering 200
\* (the new booking appended) or as a next-version computation that evicts
\* (the cleaned ledger written); a step of the matrix or of the history
\* request, a listing, a rejected booking request and a next-version
\* computation that evicts nothing leave it as it was.
C28_OnlyBookAndEvictionWrite ==
  [][ledger' # ledger =>
       /\ mx' = mx
       /\ hist' = hist
       /\ \/ /\ last'.op = "book"
             /\ resp'.status = 200
             /\ ledger' = Append(ledger, resp'.booking)
          \/ /\ last'.op = "next"
             /\ Len(ledger') < Len(ledger)
             /\ ledger' = Cleanup(ledger, last'.cms)]_vars

\* The listing, the matrix and the history all ran on a ledger with a booking.
C28_Witness ==
  /\ Len(ledger) = 1
  /\ last.op = "list"
  /\ resp.bookings = ledger
  /\ mx.pc = "done"
  /\ Windowed
  /\ hist.bookings = ledger

\* C29: a dashboard page whose booking request was answered 409 gets its
\* nextVersion reloaded: once it is idle again, with no load pending and no
\* refresh made, its nextVersion is not the rejected version, and its next
\* booking request does not submit the rejected version.
C29_RejectedPageReloads ==
  \A d \in Dashboards :
    ui[d].rejected # NoVersion =>
      /\ (ui[d].pc = "idle" /\ ui[d].loads = {}) => ui[d].nextVersion # ui[d].rejected
      /\ ui[d].pc = "booking" => ui[d].submitted # ui[d].rejected

\* C30: the clients and components returned with the matrix are exactly
\* those with a matrix entry: every client listed has an entry for some
\* component, every component listed has an entry for some client, and every
\* (client, component) entry has its client and its component listed.
C30_ListsMatchEntries ==
  Built =>
    /\ mx.resp.clients = {c[1] : c \in Cells(mx.resp.matrix)}
    /\ mx.resp.components = {c[2] : c \in Cells(mx.resp.matrix)}

====
